---------------------------- MODULE Spec2Model ----------------------------
(***************************************************************************)
(* Model of the two sentiment-analysis services of the repository:         *)
(*   "analyzers": src/src/analyzers/sentiment/python  (POST /analyze,       *)
(*                POST /analyze/batch)                                       *)
(*   "services":  src/python-services/sentiment-analyzer (POST /analyze,    *)
(*                POST /batch)                                               *)
(* Texts are TLA+ strings.  The pretrained models (FinBERT, spaCy, NLTK)    *)
(* are outside the repository: their outputs on a text are part of the      *)
(* input (the classifier's distribution or its failure, the NER spans, the  *)
(* tokens).  Floats are fixed-point integers, Unit standing for 1.0.        *)
(***************************************************************************)
EXTENDS Integers, Sequences, FiniteSets, TLC

VARIABLES
    tokenizer,      \* analyzers SentimentAnalyzer.tokenizer  ("none" | "loaded")
    model,          \* analyzers SentimentAnalyzer.model
    nlp,            \* analyzers SentimentAnalyzer.nlp
    models_loaded,  \* analyzers SentimentAnalyzer._models_loaded
    loads,          \* how many times load_models has run to its end
    req,            \* the HTTP request the client sends (and may send again)
    resp,           \* the response to the last handled request, or NoResp
    analyzed,       \* texts analyzer.analyze was invoked on for that request
    ready_at,       \* what analyzer.models_loaded() was when that request was handled
    crypto_keywords,\* services SentimentAnalyzer.crypto_keywords, in iteration order
    weights,        \* analyzers config.py WEIGHT_*, read from the environment (tenths)
    call,           \* pure-function specifications: the call's arguments
    ret             \* pure-function specifications: the value returned

vars == <<tokenizer, model, nlp, models_loaded, loads, req, resp, analyzed, ready_at,
          crypto_keywords, weights, call, ret>>

--------------------------------------------------------------------------
(* Bounds of the model *)

\* number of steps of the probability grid the classifier's output is drawn from
ProbSteps == 6
\* longest batch enumerated item by item (longer ones are uniform)
MaxBatch == 2
\* most NER spans the NER model returns on one text
MaxSpans == 2
\* most tokens the tokenizer returns on one text
MaxTokens == 4
\* largest top_n passed to extract_keywords
MaxTopN == 3
\* most entities passed to calculate_impact
MaxEntities == 6
\* most parts a text given to a normalizer is put together from
MaxParts == 3

--------------------------------------------------------------------------
(* Fixed point *)

\* round(x, 4): four decimals
RoundScale == 10000
\* 1.0; one more decimal than round() keeps, so that rounding does something
Unit == 10 * RoundScale

Abs(x) == IF x < 0 THEN -x ELSE x
Min(a, b) == IF a <= b THEN a ELSE b
Max(a, b) == IF a >= b THEN a ELSE b

\* Python round(x, 4): to the nearest multiple of 10^-4, ties to even
Round4(x) ==
    LET step == Unit \div RoundScale
        a == Abs(x)
        q == a \div step
        r == a % step
        n == IF 2 * r > step THEN q + 1
             ELSE IF 2 * r < step THEN q
             ELSE IF q % 2 = 0 THEN q ELSE q + 1
    IN  (IF x < 0 THEN -1 ELSE 1) * n * step

--------------------------------------------------------------------------
(* Python floats: IEEE 754 binary64, round to nearest, ties to even.  A    *)
(* float is sgn * man * 2^exp with man a natural number of exactly 53 bits *)
(* (or zero), held in limbs of LimbBits bits, least significant first.     *)
(* The values met here are far from the subnormal and the overflow range.  *)

\* bits of a limb: the product of two limbs and a carry fit TLC's integers
LimbBits == 13
LimbBase == 2 ^ LimbBits
\* bits of the significand of a binary64
Precision == 53
\* fraction bits kept by a division before it is rounded
DivBits == 80

\* a natural number below LimbBase^3 as limbs
BTrim(a) ==
    LET nz == {i \in 1..Len(a) : a[i] # 0}
    IN  IF nz = {} THEN <<>>
        ELSE SubSeq(a, 1, CHOOSE i \in nz : \A j \in nz : j <= i)
BFromInt(n) ==
    BTrim(<<n % LimbBase, (n \div LimbBase) % LimbBase, n \div (LimbBase * LimbBase)>>)
BLimb(a, i) == IF i >= 1 /\ i <= Len(a) THEN a[i] ELSE 0

RECURSIVE BAddFrom(_, _, _, _)
BAddFrom(a, b, i, carry) ==
    IF i > Len(a) /\ i > Len(b)
    THEN (IF carry = 0 THEN <<>> ELSE <<carry>>)
    ELSE LET t == BLimb(a, i) + BLimb(b, i) + carry
         IN  <<t % LimbBase>> \o BAddFrom(a, b, i + 1, t \div LimbBase)
BAdd(a, b) == BTrim(BAddFrom(a, b, 1, 0))

RECURSIVE BSubFrom(_, _, _, _)
\* a - b for a >= b
BSubFrom(a, b, i, borrow) ==
    IF i > Len(a) THEN <<>>
    ELSE LET t == BLimb(a, i) - BLimb(b, i) - borrow
         IN  <<IF t < 0 THEN t + LimbBase ELSE t>>
             \o BSubFrom(a, b, i + 1, IF t < 0 THEN 1 ELSE 0)
BSub(a, b) == BTrim(BSubFrom(a, b, 1, 0))

\* -1, 0, 1 as a < b, a = b, a > b (both trimmed)
BCmp(a, b) ==
    IF Len(a) # Len(b) THEN (IF Len(a) < Len(b) THEN -1 ELSE 1)
    ELSE LET d == {i \in 1..Len(a) : a[i] # b[i]}
         IN  IF d = {} THEN 0
             ELSE LET m == CHOOSE i \in d : \A j \in d : j <= i
                  IN  IF a[m] < b[m] THEN -1 ELSE 1

RECURSIVE BMulSmallFrom(_, _, _, _)
BMulSmallFrom(a, k, i, carry) ==
    IF i > Len(a) THEN (IF carry = 0 THEN <<>> ELSE <<carry>>)
    ELSE LET t == a[i] * k + carry
         IN  <<t % LimbBase>> \o BMulSmallFrom(a, k, i + 1, t \div LimbBase)
\* a * k for 0 <= k <= LimbBase
BMulSmall(a, k) == BTrim(BMulSmallFrom(a, k, 1, 0))

\* a * LimbBase^n
BShlLimbs(a, n) == IF a = <<>> THEN <<>> ELSE [i \in 1..n |-> 0] \o a
RECURSIVE BMulFrom(_, _, _)
BMulFrom(a, b, i) ==
    IF i > Len(b) THEN <<>>
    ELSE BAdd(BShlLimbs(BMulSmall(a, b[i]), i - 1), BMulFrom(a, b, i + 1))
BMul(a, b) == BMulFrom(a, b, 1)

RECURSIVE BDivSmallFrom(_, _, _, _)
\* from the most significant limb down: the quotient's limbs and the remainder
BDivSmallFrom(a, d, i, rem) ==
    IF i < 1 THEN [q |-> <<>>, r |-> rem]
    ELSE LET t == rem * LimbBase + a[i]
             rest == BDivSmallFrom(a, d, i - 1, t % d)
         IN  [q |-> Append(rest.q, t \div d), r |-> rest.r]
\* a \div d and a % d for 0 < d < 2^(31 - LimbBits)
BDivSmall(a, d) ==
    LET x == BDivSmallFrom(a, d, Len(a), 0)
    IN  [q |-> BTrim(x.q), r |-> x.r]

\* a * 2^n and a \div 2^n
BShl(a, n) == BMulSmall(BShlLimbs(a, n \div LimbBits), 2 ^ (n % LimbBits))
BShr(a, n) ==
    LET k == n \div LimbBits
    IN  IF k >= Len(a) THEN <<>>
        ELSE BDivSmall(SubSeq(a, k + 1, Len(a)), 2 ^ (n % LimbBits)).q
\* the number of bits of a
BitLen(a) ==
    IF a = <<>> THEN 0
    ELSE LimbBits * (Len(a) - 1)
         + (CHOOSE k \in 1..LimbBits : 2 ^ (k - 1) <= a[Len(a)] /\ a[Len(a)] < 2 ^ k)

FZero == [sgn |-> 1, man |-> <<>>, exp |-> 0]
\* sgn * m * 2^e with m of at most Precision + 1 bits
FPack(sgn, m, e) ==
    IF BitLen(m) > Precision
    THEN [sgn |-> sgn, man |-> BShr(m, 1), exp |-> e + 1]
    ELSE [sgn |-> sgn, man |-> m, exp |-> e]
\* round half to even: q is the kept part and c compares the part cut off
\* with one half
FRoundUp(q, c, sticky) ==
    IF c > 0 \/ (c = 0 /\ (sticky \/ q[1] % 2 = 1)) THEN BAdd(q, <<1>>) ELSE q
\* n cut by sh bits to q
FRoundCut(sgn, n, e, sticky, sh, q) ==
    FPack(sgn,
          FRoundUp(q, BCmp(BSub(n, BShl(q, sh)), BShl(<<1>>, sh - 1)), sticky),
          e + sh)
\* n has len bits
FRoundLen(sgn, n, e, sticky, len) ==
    IF len <= Precision
    THEN [sgn |-> sgn, man |-> BShl(n, Precision - len), exp |-> e - (Precision - len)]
    ELSE FRoundCut(sgn, n, e, sticky, len - Precision, BShr(n, len - Precision))
\* the float nearest to sgn * (n + f) * 2^e, where 0 <= f < 1 and sticky
\* tells whether f > 0 (n then has more than Precision + 1 bits)
FRound(sgn, n, e, sticky) ==
    IF n = <<>> THEN FZero ELSE FRoundLen(sgn, n, e, sticky, BitLen(n))

\* float(n) / float(d) for integers n and d > 0; also the value of the decimal
\* literal n/d, both being the float nearest to the quotient
FDiv(n, d) ==
    LET x == BDivSmall(BShl(BFromInt(Abs(n)), DivBits), d)
    IN  FRound(IF n < 0 THEN -1 ELSE 1, x.q, -DivBits, x.r # 0)

\* a * b
FMul(a, b) == FRound(a.sgn * b.sgn, BMul(a.man, b.man), a.exp + b.exp, FALSE)

\* sa * x * 2^e + sb * y * 2^e, where c compares x with y
FAddAligned(sa, sb, x, y, c, e) ==
    FRound(IF sa = sb \/ c > 0 THEN sa ELSE sb,
           IF sa = sb THEN BAdd(x, y) ELSE IF c >= 0 THEN BSub(x, y) ELSE BSub(y, x),
           e, FALSE)
\* the significands brought to the exponent e
FAddAt(a, b, x, y, e) == FAddAligned(a.sgn, b.sgn, x, y, BCmp(x, y), e)
FAddTo(a, b, e) == FAddAt(a, b, BShl(a.man, a.exp - e), BShl(b.man, b.exp - e), e)
\* a + b
FAdd(a, b) ==
    IF a.man = <<>> THEN b
    ELSE IF b.man = <<>> THEN a
    ELSE FAddTo(a, b, Min(a.exp, b.exp))

\* the significands brought to the exponent e, compared
FCmpAt(a, b, e) == BCmp(BShl(a.man, a.exp - e), BShl(b.man, b.exp - e))
\* -1, 0, 1 as a < b, a = b, a > b
FCmp(a, b) ==
    IF a.man = <<>> /\ b.man = <<>> THEN 0
    ELSE IF a.man = <<>> THEN -b.sgn
    ELSE IF b.man = <<>> THEN a.sgn
    ELSE IF a.sgn # b.sgn THEN a.sgn
    ELSE a.sgn * FCmpAt(a, b, Min(a.exp, b.exp))
FAbs(a) == [a EXCEPT !.sgn = 1]
\* min(a, b): the first of the two unless the second is smaller
FMin(a, b) == IF FCmp(b, a) < 0 THEN b ELSE a
\* max(a, b)
FMax(a, b) == IF FCmp(b, a) > 0 THEN b ELSE a

\* the float of a fixed-point value: the float nearest to x / Unit
Float(x) == FDiv(x, Unit)

--------------------------------------------------------------------------
(* Strings *)

Char(s, i) == SubSeq(s, i, i)
UpperChars == "ABCDEFGHIJKLMNOPQRSTUVWXYZ"
LowerChars == "abcdefghijklmnopqrstuvwxyz"
DigitChars == "0123456789"
SpaceChars == " \t\n"

CharsOf(cs) == {Char(cs, i) : i \in 1..Len(cs)}
UpperSet == CharsOf(UpperChars)
LowerSet == CharsOf(LowerChars)
AlnumSet == UpperSet \cup LowerSet \cup CharsOf(DigitChars)
SpaceSet == CharsOf(SpaceChars)
LowerOf == [c \in UpperSet |->
              Char(LowerChars, CHOOSE i \in 1..Len(UpperChars) : Char(UpperChars, i) = c)]
UpperOf == [c \in LowerSet |->
              Char(UpperChars, CHOOSE i \in 1..Len(LowerChars) : Char(LowerChars, i) = c)]

IsSpace(c) == c \in SpaceSet
IsAlnumChar(c) == c \in AlnumSet
\* regex \w
IsWordChar(c) == IsAlnumChar(c) \/ c = "_"

LowerChar(c) == IF c \in UpperSet THEN LowerOf[c] ELSE c
UpperChar(c) == IF c \in LowerSet THEN UpperOf[c] ELSE c

RECURSIVE Lower(_)
\* str.lower()
Lower(s) == IF s = "" THEN "" ELSE LowerChar(Head(s)) \o Lower(Tail(s))
RECURSIVE Upper(_)
\* str.upper()
Upper(s) == IF s = "" THEN "" ELSE UpperChar(Head(s)) \o Upper(Tail(s))
\* str.capitalize(): first character upper, the rest lower
Capitalize(s) == IF s = "" THEN "" ELSE UpperChar(Head(s)) \o Lower(Tail(s))
\* str.isalnum(): non-empty and every character alphanumeric
IsAlnum(s) == s # "" /\ \A i \in 1..Len(s) : IsAlnumChar(Char(s, i))
\* str.strip() = "" : empty or whitespace only
IsBlank(s) == \A i \in 1..Len(s) : IsSpace(Char(s, i))
\* `k in s` (substring)
Contains(k, s) == \E i \in 1..(Len(s) - Len(k) + 1) : SubSeq(s, i, i + Len(k) - 1) = k
\* the 1-based starts of the matches of r'\b' + re.escape(w) + r'\b' in s,
\* for a word w made of word characters
WordMatches(w, s) ==
    {i \in 1..(Len(s) - Len(w) + 1) :
        /\ SubSeq(s, i, i + Len(w) - 1) = w
        /\ (i = 1 \/ ~IsWordChar(Char(s, i - 1)))
        /\ (i + Len(w) - 1 = Len(s) \/ ~IsWordChar(Char(s, i + Len(w))))}

\* the elements of a sequence
Range(q) == {q[i] : i \in 1..Len(q)}
\* the sequences over S of length at most n
SeqsUpTo(S, n) == UNION {[1..k -> S] : k \in 0..n}


--------------------------------------------------------------------------
(* Values returned and exceptions raised *)

NoVal == [none |-> TRUE]
Return(v) == [ok |-> TRUE, val |-> v, err |-> ""]
Raise(msg) == [ok |-> FALSE, val |-> NoVal, err |-> msg]

\* what the transformers model raises when it fails (outside the repository)
ModelErrorMsg == "model error"
NotLoadedMsg == "Models not loaded. Call load_models() first."

--------------------------------------------------------------------------
(* The classifier's output: a distribution over [positive, negative,       *)
(* neutral] (FinBERT's class order), or a failure                          *)

Grid == {(k * Unit) \div ProbSteps : k \in 0..ProbSteps}
Distributions ==
    {<<ab[1], ab[2], Unit - ab[1] - ab[2]>> :
        ab \in {x \in Grid \X Grid : x[1] + x[2] <= Unit}}
ModelFails == [raises |-> TRUE, probs |-> <<0, 0, 0>>]
ModelGives(p) == [raises |-> FALSE, probs |-> p]
SentOutcomes == {ModelGives(p) : p \in Distributions} \cup {ModelFails}

\* the bug of an argmax that takes the last index holding the maximum
ArgMaxLast(p) == CHOOSE i \in 1..Len(p) :
    /\ \A j \in 1..Len(p) : p[j] <= p[i]
    /\ \A j \in (i + 1)..Len(p) : p[j] < p[i]

\* torch argmax / Python max(key=score): the first index holding the maximum
ArgMax(p) == CHOOSE i \in 1..Len(p) :
    /\ \A j \in 1..Len(p) : p[j] <= p[i]
    /\ \A j \in 1..(i - 1) : p[j] < p[i]

--------------------------------------------------------------------------
(* analyzers: SentimentAnalyzer.classify_sentiment *)

A_score(probs_list) == probs_list[1] - probs_list[2]

\* the bug of a classifier without the guard on _models_loaded
A_classify_sentiment_unguarded(loaded, text, sent) ==
    IF sent.raises THEN Raise(ModelErrorMsg)
    ELSE
      LET probs_list == sent.probs
          max_prob_idx == ArgMax(probs_list) - 1
      IN  Return([sentiment |-> Max(-Unit, Min(Unit, A_score(probs_list))),
                  confidence |-> probs_list[max_prob_idx + 1],
                  label |-> IF max_prob_idx = 0 THEN "positive"
                            ELSE IF max_prob_idx = 1 THEN "negative"
                            ELSE "neutral"])

A_classify_sentiment(loaded, text, sent) ==
    IF ~loaded THEN Raise(NotLoadedMsg)
    ELSE IF sent.raises THEN Raise(ModelErrorMsg)
    ELSE
      LET probs_list == sent.probs
          max_prob_idx == ArgMax(probs_list) - 1
          confidence == probs_list[max_prob_idx + 1]
          sentiment_score ==
              IF max_prob_idx = 0 THEN A_score(probs_list)
              ELSE IF max_prob_idx = 1 THEN A_score(probs_list)
              ELSE A_score(probs_list)
          label ==
              IF max_prob_idx = 0 THEN "positive"
              ELSE IF max_prob_idx = 1 THEN "negative"
              ELSE "neutral"
      IN  Return([sentiment |-> Max(-Unit, Min(Unit, sentiment_score)),
                  confidence |-> confidence,
                  label |-> label])

--------------------------------------------------------------------------
(* services: SentimentAnalyzer.classify_sentiment *)

\* the pipeline's answer with top_k=None: one {label, score} per class
PipelineLabels == <<"positive", "negative", "neutral">>
sentiment_pipeline(probs) == [i \in 1..3 |-> [label |-> PipelineLabels[i], score |-> probs[i]]]

sentiment_map(label) ==
    CASE label = "positive" -> Unit
      [] label = "negative" -> -Unit
      [] label = "neutral" -> 0
      [] OTHER -> 0

\* the bug of adding the confidence where the code multiplies by it
B_scaled_sum(sentiment, confidence, label) ==
    IF label # "neutral" THEN sentiment + confidence ELSE sentiment

\* sentiment = sentiment * confidence; sentiment_map's values are the whole
\* numbers 1.0, -1.0 and 0.0, so the product is that whole number of confidences
B_scaled(sentiment, confidence, label) ==
    IF label # "neutral" THEN (sentiment \div Unit) * confidence ELSE sentiment

B_classify_sentiment(text, sent) ==
    IF sent.raises THEN Raise(ModelErrorMsg)
    ELSE
      LET results == sentiment_pipeline(sent.probs)
          max_result == results[ArgMax([i \in 1..3 |-> results[i].score])]
          label == Lower(max_result.label)
          confidence == max_result.score
          sentiment == B_scaled(sentiment_map(label), confidence, label)
      IN  Return([sentiment |-> sentiment, confidence |-> confidence, label |-> label])

--------------------------------------------------------------------------
(* The NER model's output on a text: spaCy's doc.ents, a sequence of       *)
(* labelled spans [label, start, end) (0-based, half-open) that do not     *)
(* overlap and come in text order                                          *)

\* ent.text
EntText(text, ent) == SubSeq(text, ent.start + 1, ent.end)

--------------------------------------------------------------------------
(* analyzers: config.py *)

HIGH_IMPACT_KEYWORDS ==
    <<"crash", "surge", "pump", "dump", "hack", "regulation",
      "ban", "approved", "etf", "adoption", "partnership",
      "launch", "upgrade", "fork", "halving", "attack">>

CRYPTO_ENTITIES ==
    <<"bitcoin", "btc", "ethereum", "eth", "binance", "coinbase",
      "tether", "usdt", "cardano", "ada", "solana", "sol",
      "ripple", "xrp", "dogecoin", "doge", "polkadot", "dot">>

\* the weights' defaults, in tenths: float(os.getenv("WEIGHT_SENTIMENT", "0.4"))
WEIGHT_SENTIMENT == 4
WEIGHT_ENTITIES == 3
WEIGHT_KEYWORDS == 3
DefaultWeights ==
    [sentiment |-> WEIGHT_SENTIMENT, entities |-> WEIGHT_ENTITIES, keywords |-> WEIGHT_KEYWORDS]
\* the environments the model draws from: nothing set, and WEIGHT_SENTIMENT set
\* to the negative of its default (float() accepts any number)
WeightConfigs ==
    {DefaultWeights, [DefaultWeights EXCEPT !.sentiment = -WEIGHT_SENTIMENT]}
\* the float of a weight
Weight(tenths) == FDiv(tenths, 10)

--------------------------------------------------------------------------
(* analyzers: SentimentAnalyzer.extract_entities *)

A_NER_LABELS == {"ORG", "PERSON", "PRODUCT", "GPE", "MONEY"}

RECURSIVE A_ner_entities(_, _, _)
\* for ent in doc.ents: if ent.label_ in [...]: entities.append(ent.text)
A_ner_entities(text, ents, i) ==
    IF i > Len(ents) THEN <<>>
    ELSE (IF ents[i].label \in A_NER_LABELS THEN <<EntText(text, ents[i])>> ELSE <<>>)
         \o A_ner_entities(text, ents, i + 1)

crypto_cap(crypto) == IF Len(crypto) <= 4 THEN Upper(crypto) ELSE Capitalize(crypto)

RECURSIVE A_crypto_entities(_, _, _)
\* for crypto in CRYPTO_ENTITIES: add the capitalized name when the text has it
A_crypto_entities(text_lower, entities, i) ==
    IF i > Len(CRYPTO_ENTITIES) THEN entities
    ELSE LET crypto == CRYPTO_ENTITIES[i]
             found == WordMatches(crypto, text_lower) # {}
             present == crypto_cap(crypto) \in Range(entities)
         IN  A_crypto_entities(text_lower,
                 IF found /\ ~present THEN Append(entities, crypto_cap(crypto)) ELSE entities,
                 i + 1)

\* the bug of remembering the entity as spelled
A_seen_key_exact(entity) == entity

\* the key an entity is remembered under in `seen`
A_seen_key(entity) == Lower(entity)

RECURSIVE A_unique(_, _, _, _)
\* remove duplicates while preserving order
A_unique(entities, i, seen, unique_entities) ==
    IF i > Len(entities) THEN unique_entities
    ELSE LET entity_lower == A_seen_key(entities[i])
         IN  IF entity_lower \notin seen
             THEN A_unique(entities, i + 1, seen \cup {entity_lower},
                           Append(unique_entities, entities[i]))
             ELSE A_unique(entities, i + 1, seen, unique_entities)

\* the list before the duplicates are removed
A_all_entities(text, ents) ==
    A_crypto_entities(Lower(text), A_ner_entities(text, ents, 1), 1)

A_extract_entities(loaded, text, ents) ==
    IF ~loaded THEN Raise(NotLoadedMsg)
    ELSE Return(A_unique(A_all_entities(text, ents), 1, {}, <<>>))

--------------------------------------------------------------------------
(* analyzers: TextPreprocessor *)

\* nltk's stopwords.words('english') is data outside the repository; these
\* are the entries of it the model's vocabulary meets
ENGLISH_STOPWORDS ==
    {"the", "and", "from", "after", "is", "was", "are", "has", "can", "for",
     "in", "on", "to", "of", "it", "a", "an",
     "up", "down", "above", "below", "against", "not", "no"}
keep_words == {"up", "down", "above", "below", "against", "not", "no"}
stop_words == ENGLISH_STOPWORDS \ keep_words

\* the bug of an off-by-one length test
A_keep_token_short(token) == IsAlnum(token) /\ Len(token) >= 2 /\ token \notin stop_words

\* token.isalnum() and len(token) > 2 and token not in self.stop_words
A_keep_token(token) == IsAlnum(token) /\ Len(token) > 2 /\ token \notin stop_words

RECURSIVE A_filter_tokens(_, _)
A_filter_tokens(tokens, i) ==
    IF i > Len(tokens) THEN <<>>
    ELSE (IF A_keep_token(tokens[i]) THEN <<tokens[i]>> ELSE <<>>)
         \o A_filter_tokens(tokens, i + 1)

\* Counter(keywords): the count of a word, and the words in first-seen order
CountOf(w, keywords) == Cardinality({i \in 1..Len(keywords) : keywords[i] = w})
RECURSIVE FirstSeen(_, _, _)
FirstSeen(keywords, i, acc) ==
    IF i > Len(keywords) THEN acc
    ELSE FirstSeen(keywords, i + 1,
             IF keywords[i] \in Range(acc) THEN acc ELSE Append(acc, keywords[i]))

\* the bug of leaving the words in first-seen order, whatever their counts
most_common_unsorted(words, keywords) == words

RECURSIVE most_common_order(_, _)
\* the words by descending count, equal counts in first-seen order (a stable sort)
most_common_order(words, keywords) ==
    IF words = <<>> THEN <<>>
    ELSE LET best == CHOOSE i \in 1..Len(words) :
                 /\ \A j \in 1..Len(words) :
                        CountOf(words[j], keywords) <= CountOf(words[i], keywords)
                 /\ \A j \in 1..(i - 1) :
                        CountOf(words[j], keywords) < CountOf(words[i], keywords)
             rest == [k \in 1..(Len(words) - 1) |->
                        IF k < best THEN words[k] ELSE words[k + 1]]
         IN  <<words[best]>> \o most_common_order(rest, keywords)

\* Counter.most_common(n): the first n of that order, nothing when n <= 0
most_common(keywords, n) ==
    LET ranked == most_common_order(FirstSeen(keywords, 1, <<>>), keywords)
    IN  SubSeq(ranked, 1, Min(Max(n, 0), Len(ranked)))

\* extract_keywords, from the tokens word_tokenize returns on the cleaned text
A_extract_keywords(tokens, top_n) ==
    most_common(A_filter_tokens(tokens, 1), top_n)

--------------------------------------------------------------------------
(* analyzers: SentimentAnalyzer.calculate_impact; sentiment_score is the   *)
(* fixed-point value of the float the classifier returned                  *)

A_keyword_matches(text_lower) ==
    Cardinality({i \in 1..Len(HIGH_IMPACT_KEYWORDS) :
                    Contains(HIGH_IMPACT_KEYWORDS[i], text_lower)})

FOne == FDiv(1, 1)
\* the thresholds 0.7 and 0.4
IMPACT_HIGH == FDiv(7, 10)
IMPACT_MEDIUM == FDiv(4, 10)

\* min(len(entities) / 5.0, 1.0) by the number of entities, and
\* min(keyword_matches / 3.0, 1.0) by the number of matches
entity_score == [n \in 0..(2 * MaxEntities) |-> FMin(FDiv(n, 5), FOne)]
keyword_score == [n \in 0..Len(HIGH_IMPACT_KEYWORDS) |-> FMin(FDiv(n, 3), FOne)]
\* the floats of the weights the model draws from
WeightOf == [tenths \in {w[f] : w \in WeightConfigs, f \in {"sentiment", "entities", "keywords"}}
                |-> Weight(tenths)]

\* the bug of weighing the sentiment itself where the code weighs its abs()
A_impact_score_signed(text, sentiment_score, entities, keywords) ==
    LET s1 == FAdd(FZero, FMul(Float(sentiment_score), WeightOf[weights.sentiment]))
        s2 == FAdd(s1, FMul(entity_score[Len(entities)], WeightOf[weights.entities]))
    IN  FAdd(s2, FMul(keyword_score[A_keyword_matches(Lower(text))],
                      WeightOf[weights.keywords]))

\* impact_score after the three += of calculate_impact
A_impact_score(text, sentiment_score, entities, keywords) ==
    LET sentiment_intensity == FAbs(Float(sentiment_score))
        keyword_matches == A_keyword_matches(Lower(text))
        s1 == FAdd(FZero, FMul(sentiment_intensity, WeightOf[weights.sentiment]))
        s2 == FAdd(s1, FMul(entity_score[Len(entities)], WeightOf[weights.entities]))
    IN  FAdd(s2, FMul(keyword_score[keyword_matches], WeightOf[weights.keywords]))

\* the level of a score
A_impact_level(impact_score) ==
    IF FCmp(impact_score, IMPACT_HIGH) >= 0 THEN "high"
    ELSE IF FCmp(impact_score, IMPACT_MEDIUM) >= 0 THEN "medium"
    ELSE "low"

A_calculate_impact(text, sentiment_score, entities, keywords) ==
    A_impact_level(A_impact_score(text, sentiment_score, entities, keywords))

--------------------------------------------------------------------------
(* analyzers: SentimentAnalyzer.analyze *)

\* keywords[:5]
A_top_keywords(keywords) == SubSeq(keywords, 1, Min(5, Len(keywords)))

\* an item: the text with what the external models answer on it
\*   sent  the classifier's outcome      ents  the NER spans
\*   words word_tokenize's tokens of the cleaned text
\*   doc   spaCy's tokens of the lowercased text
A_analyze(loaded, item) ==
    IF ~loaded THEN Raise(NotLoadedMsg)
    ELSE
      LET c == A_classify_sentiment(loaded, item.text, item.sent)
          e == A_extract_entities(loaded, item.text, item.ents)
          keywords == A_extract_keywords(item.words, 10)
      IN  IF ~c.ok THEN c
          ELSE IF ~e.ok THEN e
          ELSE Return([sentiment |-> Round4(c.val.sentiment),
                       confidence |-> Round4(c.val.confidence),
                       label |-> c.val.label,
                       entities |-> e.val,
                       impact |-> A_calculate_impact(item.text, c.val.sentiment,
                                                     e.val, keywords),
                       keywords |-> A_top_keywords(keywords)])

--------------------------------------------------------------------------
(* services: SentimentAnalyzer.__init__ *)

\* self.crypto_keywords is a Python set: its members as written in the source.
\* The order a set of strings is iterated in is fixed when the process starts
\* and is not the written order in general.
CRYPTO_KEYWORDS_WRITTEN ==
    <<"bitcoin", "btc", "ethereum", "eth", "cryptocurrency", "crypto",
      "binance", "coinbase", "blockchain", "defi", "nft", "web3",
      "solana", "sol", "cardano", "ada", "ripple", "xrp", "dogecoin",
      "doge", "polkadot", "dot", "avalanche", "avax", "polygon", "matic",
      "litecoin", "ltc", "chainlink", "link", "uniswap", "uni",
      "usdt", "usdc", "stablecoin", "altcoin", "token", "coin">>
Reverse(q) == [i \in 1..Len(q) |-> q[Len(q) + 1 - i]]
\* the iteration orders the model draws from
CryptoKeywordOrders == {CRYPTO_KEYWORDS_WRITTEN, Reverse(CRYPTO_KEYWORDS_WRITTEN)}

high_impact_keywords ==
    {"hack", "breach", "crash", "surge", "skyrocket", "plunge",
     "collapse", "approval", "regulation", "ban", "adoption",
     "partnership", "launch", "etf", "sec", "breaking", "alert"}
medium_impact_keywords ==
    {"rise", "fall", "gain", "loss", "growth", "decline",
     "update", "upgrade", "development", "announce", "report"}

--------------------------------------------------------------------------
(* services: SentimentAnalyzer._map_entity_type, extract_entities *)

EXCHANGES == {"binance", "coinbase", "kraken", "bybit"}

\* the bug of looking at the label before the crypto vocabulary
B_map_entity_type_by_label(kws, spacy_label, text) ==
    IF spacy_label \in {"PERSON"} THEN "person"
    ELSE IF spacy_label \in {"ORG"} THEN
        (IF \E exchange \in EXCHANGES : Contains(exchange, text)
         THEN "exchange" ELSE "company")
    ELSE IF spacy_label \in {"PRODUCT"} THEN "cryptocurrency"
    ELSE IF text \in Range(kws) THEN "cryptocurrency"
    ELSE "organization"

B_map_entity_type(kws, spacy_label, text) ==
    IF text \in Range(kws) THEN "cryptocurrency"
    ELSE IF spacy_label \in {"PERSON"} THEN "person"
    ELSE IF spacy_label \in {"ORG"} THEN
        (IF \E exchange \in EXCHANGES : Contains(exchange, text)
         THEN "exchange" ELSE "company")
    ELSE IF spacy_label \in {"PRODUCT"} THEN "cryptocurrency"
    ELSE "organization"

\* for ent in doc.ents: entities.append({...})
B_ner_entities(kws, text, ents) ==
    [i \in 1..Len(ents) |->
        [text |-> EntText(text, ents[i]),
         type |-> B_map_entity_type(kws, ents[i].label, Lower(EntText(text, ents[i]))),
         start |-> ents[i].start,
         end |-> ents[i].end]]

\* the bug of adding a match whatever was found at its offset
B_is_new_always(entities, start) == TRUE

\* not any(e['start'] == match.start() for e in entities)
B_is_new(entities, start) == ~\E i \in 1..Len(entities) : entities[i].start = start

RECURSIVE B_add_matches(_, _, _, _)
\* for match in re.finditer(pattern, text_lower): the matches left to right
B_add_matches(text, crypto, starts, entities) ==
    IF starts = {} THEN entities
    ELSE LET m == CHOOSE x \in starts : \A y \in starts : x <= y
             start == m - 1
             end == start + Len(crypto)
         IN  B_add_matches(text, crypto, starts \ {m},
                 IF B_is_new(entities, start)
                 THEN Append(entities, [text |-> SubSeq(text, start + 1, end),
                                        type |-> "cryptocurrency",
                                        start |-> start,
                                        end |-> end])
                 ELSE entities)

RECURSIVE B_crypto_entities(_, _, _, _, _)
\* for crypto in self.crypto_keywords
B_crypto_entities(kws, text, text_lower, entities, i) ==
    IF i > Len(kws) THEN entities
    ELSE B_crypto_entities(kws, text, text_lower,
             B_add_matches(text, kws[i], WordMatches(kws[i], text_lower), entities),
             i + 1)

B_extract_entities(kws, text, ents) ==
    LET text_lower == Lower(text)
    IN  B_crypto_entities(kws, text, text_lower, B_ner_entities(kws, text, ents), 1)

--------------------------------------------------------------------------
(* services: SentimentAnalyzer.calculate_impact (integer points) *)

B_impact_points(text, sentiment, entities) ==
    LET text_lower == Lower(text)
        high == Cardinality({k \in high_impact_keywords : Contains(k, text_lower)})
        medium == Cardinality({k \in medium_impact_keywords : Contains(k, text_lower)})
        strong == IF Abs(sentiment) * 10 > 7 * Unit THEN 2
                  ELSE IF Abs(sentiment) * 10 > 4 * Unit THEN 1
                  ELSE 0
        crypto_entities == {i \in 1..Len(entities) : entities[i].type = "cryptocurrency"}
        crypto == IF Cardinality(crypto_entities) >= 3 THEN 2
                  ELSE IF Cardinality(crypto_entities) >= 1 THEN 1
                  ELSE 0
    IN  3 * high + medium + strong + crypto

B_calculate_impact(text, sentiment, entities) ==
    LET score == B_impact_points(text, sentiment, entities)
    IN  IF score >= 5 THEN "high"
        ELSE IF score >= 2 THEN "medium"
        ELSE "low"

--------------------------------------------------------------------------
(* services: SentimentAnalyzer.extract_keywords, from spaCy's tokens of    *)
(* the lowercased text: [text, pos, is_stop, is_punct]                     *)

B_keep_token(token) ==
    /\ token.pos \in {"NOUN", "ADJ", "VERB"}
    /\ ~token.is_stop
    /\ ~token.is_punct
    /\ Len(token.text) > 2

RECURSIVE B_keywords(_, _)
B_keywords(doc, i) ==
    IF i > Len(doc) THEN <<>>
    ELSE (IF B_keep_token(doc[i]) THEN <<doc[i].text>> ELSE <<>>) \o B_keywords(doc, i + 1)

B_extract_keywords(doc, top_n) ==
    LET unique_keywords == FirstSeen(B_keywords(doc, 1), 1, <<>>)
    IN  SubSeq(unique_keywords, 1, Min(Max(top_n, 0), Len(unique_keywords)))

--------------------------------------------------------------------------
(* services: SentimentAnalyzer.analyze *)

B_analyze(kws, item) ==
    LET sentiment_result == B_classify_sentiment(item.text, item.sent)
        entities == B_extract_entities(kws, item.text, item.ents)
    IN  IF ~sentiment_result.ok THEN sentiment_result
        ELSE Return([sentiment |-> sentiment_result.val.sentiment,
                     confidence |-> sentiment_result.val.confidence,
                     label |-> sentiment_result.val.label,
                     entities |-> entities,
                     impact |-> B_calculate_impact(item.text,
                                    sentiment_result.val.sentiment, entities),
                     keywords |-> B_extract_keywords(item.doc, 10)])

--------------------------------------------------------------------------
(* The normalizers: analyzers TextPreprocessor.clean_text, services        *)
(* SentimentAnalyzer.preprocess_text.  A pattern is given by the function  *)
(* that maps a position of the text to the end of the match that starts    *)
(* there, 0 when none does; every pattern here matches at least one        *)
(* character, greedily.                                                    *)

\* the last position of the run that starts at i of positions where `in` holds
\* (i - 1 when it does not hold at i)
RunEnd(in, i) ==
    CHOOSE j \in (i - 1)..Len(in) :
        /\ \A k \in i..j : in[k]
        /\ (j = Len(in) \/ ~in[j + 1])
\* where s has a character of regex \s, and of regex \S
SpaceAt(s) == [k \in 1..Len(s) |-> IsSpace(Char(s, k))]
NonSpaceAt(s) == [k \in 1..Len(s) |-> ~IsSpace(Char(s, k))]
\* s[i:i+len(p)] == p
StartsAt(p, s, i) == i + Len(p) - 1 <= Len(s) /\ SubSeq(s, i, i + Len(p) - 1) = p

RECURSIVE Sub(_, _, _, _)
\* re.sub(pattern, repl, s), from position i on: the matches left to right
Sub(ends, repl, s, i) ==
    IF i > Len(s) THEN ""
    ELSE IF ends[i] >= i THEN repl \o Sub(ends, repl, s, ends[i] + 1)
    ELSE Char(s, i) \o Sub(ends, repl, s, i + 1)

\* r'\s+'
SpacesPattern(s) ==
    [i \in 1..Len(s) |-> IF IsSpace(Char(s, i)) THEN RunEnd(SpaceAt(s), i) ELSE 0]
\* r'<[^>]+>': a '<', one or more characters other than '>', then a '>'
TagPattern(s) ==
    [i \in 1..Len(s) |->
        LET closes == {j \in (i + 1)..Len(s) : Char(s, j) = ">"}
            j == CHOOSE x \in closes : \A y \in closes : x <= y
        IN  IF Char(s, i) = "<" /\ closes # {} /\ j > i + 1 THEN j ELSE 0]
\* r'\S+@\S+': within a run of non-spaces, an '@' with a character on each side
EmailPattern(s) ==
    [i \in 1..Len(s) |->
        LET e == RunEnd(NonSpaceAt(s), i)
        IN  IF \E q \in (i + 1)..(e - 1) : Char(s, q) = "@" THEN e ELSE 0]
\* the characters of the analyzers' URL class: [a-zA-Z], [0-9], [$-_@.&+]
\* (the range from '$' to '_'), [!*\\(\\),]
URL_CHARS == AlnumSet \cup CharsOf("$%&'()*+,-./:;<=>?@[\\]^_!")
UrlCharAt(s) == [k \in 1..Len(s) |-> Char(s, k) \in URL_CHARS]
\* r'http[s]?://(?:...)+'
A_UrlPattern(s) ==
    [i \in 1..Len(s) |->
        LET r == IF StartsAt("http://", s, i) THEN i + 7
                 ELSE IF StartsAt("https://", s, i) THEN i + 8
                 ELSE 0
        IN  IF r > 0 /\ RunEnd(UrlCharAt(s), r) >= r THEN RunEnd(UrlCharAt(s), r) ELSE 0]
\* r'http\S+|www\.\S+'
B_UrlPattern(s) ==
    [i \in 1..Len(s) |->
        IF (StartsAt("http", s, i) \/ StartsAt("www.", s, i))
           /\ RunEnd(NonSpaceAt(s), i + 4) >= i + 4
        THEN RunEnd(NonSpaceAt(s), i + 4) ELSE 0]

\* str.strip()
Strip(s) ==
    LET ns == {i \in 1..Len(s) : ~IsSpace(Char(s, i))}
    IN  IF ns = {} THEN ""
        ELSE SubSeq(s, CHOOSE i \in ns : \A j \in ns : i <= j,
                       CHOOSE i \in ns : \A j \in ns : j <= i)

clean_text(text) ==
    LET t1 == Lower(text)
        t2 == Sub(A_UrlPattern(t1), "", t1, 1)
        t3 == Sub(EmailPattern(t2), "", t2, 1)
        t4 == Sub(TagPattern(t3), "", t3, 1)
        t5 == Sub(SpacesPattern(t4), " ", t4, 1)
    IN  Strip(t5)

preprocess_text(text) ==
    LET t1 == Strip(Sub(SpacesPattern(text), " ", text, 1))
        t2 == Sub(TagPattern(t1), "", t1, 1)
        t3 == Sub(B_UrlPattern(t2), "", t2, 1)
    IN  Sub(EmailPattern(t3), "", t3, 1)

--------------------------------------------------------------------------
(* Sample texts, each with what the NER model and the tokenizers answer    *)

Span(label, start, end) == [label |-> label, start |-> start, end |-> end]
Tok(t, pos, stop, punct) == [text |-> t, pos |-> pos, is_stop |-> stop, is_punct |-> punct]

SampleEmpty == [text |-> "", ents |-> <<>>, words |-> <<>>, doc |-> <<>>]
SampleBlank ==
    [text |-> " ", ents |-> <<>>, words |-> <<>>,
     doc |-> <<Tok(" ", "SPACE", FALSE, FALSE)>>]
SampleShort ==
    [text |-> "Bitcoin ETF approved",
     ents |-> <<Span("ORG", 8, 11)>>,
     words |-> <<"bitcoin", "etf", "approved">>,
     doc |-> <<Tok("bitcoin", "NOUN", FALSE, FALSE), Tok("etf", "NOUN", FALSE, FALSE),
               Tok("approved", "VERB", FALSE, FALSE)>>]
SampleDup ==
    [text |-> "btc BTC hack",
     ents |-> <<Span("ORG", 4, 7)>>,
     words |-> <<"btc", "btc", "hack">>,
     doc |-> <<Tok("btc", "NOUN", FALSE, FALSE), Tok("btc", "NOUN", FALSE, FALSE),
               Tok("hack", "NOUN", FALSE, FALSE)>>]
\* the text of test_analyzer.py's first sentence test
SampleLong ==
    [text |-> "Bitcoin price surges after major ETF approval from SEC",
     ents |-> <<Span("PERSON", 0, 7), Span("ORG", 33, 36), Span("ORG", 51, 54)>>,
     words |-> <<"bitcoin", "price", "surges", "after", "major", "etf",
                 "approval", "from", "sec">>,
     doc |-> <<Tok("bitcoin", "NOUN", FALSE, FALSE), Tok("price", "NOUN", FALSE, FALSE),
               Tok("surges", "VERB", FALSE, FALSE), Tok("after", "ADP", TRUE, FALSE),
               Tok("major", "ADJ", FALSE, FALSE), Tok("etf", "NOUN", FALSE, FALSE),
               Tok("approval", "NOUN", FALSE, FALSE), Tok("from", "ADP", TRUE, FALSE),
               Tok("sec", "NOUN", FALSE, FALSE)>>]

Samples == {SampleEmpty, SampleBlank, SampleShort, SampleDup, SampleLong}

Item(sample, sent) ==
    [text |-> sample.text, ents |-> sample.ents, words |-> sample.words,
     doc |-> sample.doc, sent |-> sent]

\* the items of single-text requests: every sample with every classifier outcome
Items == {Item(s, o) : s \in Samples, o \in SentOutcomes}
\* the items batches are made of
BatchSamples == {SampleShort, SampleDup}
BatchOutcomes == {ModelFails, ModelGives(<<Unit, 0, 0>>), ModelGives(<<0, Unit, 0>>)}
BatchItems == {Item(s, o) : s \in BatchSamples, o \in BatchOutcomes}

--------------------------------------------------------------------------
(* Requests and responses *)

\* analyzers models.py: AnalyzeRequest.text min_length / max_length,
\* BatchAnalyzeRequest.texts min_items / max_items
TEXT_MIN_LENGTH == 1
TEXT_MAX_LENGTH == 10000
TEXTS_MIN_ITEMS == 1
TEXTS_MAX_ITEMS == 100
CONTENT_TYPES == {"news", "social", "article"}
\* services main.py: "Maximum 100 texts per batch"
B_MAX_TEXTS == 100

Request(variant, endpoint, type, items) ==
    [variant |-> variant, endpoint |-> endpoint, type |-> type, items |-> items]

\* long batches, at the limit of 100 texts and one over it: all items good,
\* or every seventh item one the classifier fails on
GoodItem == Item(SampleDup, ModelGives(<<0, Unit, 0>>))
BadItem == Item(SampleDup, ModelFails)
LongBatches ==
    {[i \in 1..n |-> IF i % 7 = 0 THEN every7th ELSE GoodItem] :
        n \in {100, 101}, every7th \in {GoodItem, BadItem}}
\* every batch of up to MaxBatch items, and the long ones
Batches == SeqsUpTo(BatchItems, MaxBatch) \cup LongBatches

Requests ==
    {Request("analyzers", "analyze", t, <<it>>) : t \in {"news", "blog"}, it \in Items}
    \cup {Request("analyzers", "batch", t, b) : t \in {"news", "blog"}, b \in Batches}
    \cup {Request("services", "analyze", "news", <<it>>) : it \in Items}
    \cup {Request("services", "batch", "news", b) : b \in Batches}

NoResp == [status |-> 0, results |-> <<>>, detail |-> ""]
\* a success: the single result, or the batch's list of results
Success(results) == [status |-> 200, results |-> results, detail |-> ""]
\* raise HTTPException(status_code, detail), and the framework's validation error
HTTPError(status, detail) == [status |-> status, results |-> <<>>, detail |-> detail]
ValidationError == HTTPError(422, "validation error")

Texts(items) == [i \in 1..Len(items) |-> items[i].text]

\* the neutral result the services batch substitutes for a failed item
\* (its processing_time, like every result's, is a clock reading left out here)
NeutralResult ==
    [sentiment |-> 0, confidence |-> 0, label |-> "neutral",
     entities |-> <<>>, impact |-> "low", keywords |-> <<>>]

--------------------------------------------------------------------------
(* analyzers: SentimentAnalyzer.load_models / models_loaded *)

\* the stage of load_models that raises, or "ok"
LoadOutcomes == {"ok", "tokenizer", "model", "nlp"}

\* the bug of a load_models without its early return
load_models_again(outcome) ==
    /\ tokenizer' = IF outcome = "tokenizer" THEN tokenizer ELSE "loaded"
    /\ model' = IF outcome \in {"tokenizer", "model"} THEN model ELSE "loaded"
    /\ nlp' = IF outcome = "ok" THEN "loaded" ELSE nlp
    /\ models_loaded' = IF outcome = "ok" THEN TRUE ELSE models_loaded
    /\ loads' = IF outcome = "ok" THEN loads + 1 ELSE loads

load_models(outcome) ==
    IF models_loaded THEN UNCHANGED <<tokenizer, model, nlp, models_loaded, loads>>
    ELSE
      /\ tokenizer' = IF outcome = "tokenizer" THEN tokenizer ELSE "loaded"
      /\ model' = IF outcome \in {"tokenizer", "model"} THEN model ELSE "loaded"
      /\ nlp' = IF outcome = "ok" THEN "loaded" ELSE nlp
      /\ models_loaded' = IF outcome = "ok" THEN TRUE ELSE models_loaded
      /\ loads' = IF outcome = "ok" THEN loads + 1 ELSE loads

\* lifespan: analyzer.load_models()
LoadModels ==
    /\ \E outcome \in LoadOutcomes : load_models(outcome)
    /\ UNCHANGED <<req, resp, analyzed, ready_at, crypto_keywords, weights, call, ret>>

--------------------------------------------------------------------------
(* analyzers: SentimentAnalyzer.analyze_batch and the handlers of main.py  *)

\* raise HTTPException(status_code, detail) inside a try block
RaiseHTTP(status, detail) == [ok |-> FALSE, val |-> NoVal, err |-> detail, status |-> status]
NotReadyMsg == "Models are still loading. Please try again in a few moments."
\* str(e) of an HTTPException
HTTPStr(status, detail) == ToString(status) \o ": " \o detail

\* the comprehension ended by the item that raised first
A_batch_raised(rs, first) == [out |-> rs[first], upto |-> first]
\* rs: what analyze gives for each item; raised: the items it raises on
A_batch_result(items, i, acc, rs, raised) ==
    IF raised = {}
    THEN [out |-> Return(acc \o [j \in 1..(Len(items) - i + 1) |-> rs[i + j - 1].val]),
          upto |-> Len(items)]
    ELSE A_batch_raised(rs, CHOOSE j \in raised : \A k \in raised : j <= k)
A_batch_outcome(items, i, acc, rs) ==
    A_batch_result(items, i, acc, rs, {j \in i..Len(items) : ~rs[j].ok})

\* return [self.analyze(text, content_type) for text in texts]: the first
\* item that raises ends the comprehension and the exception propagates
A_analyze_batch(loaded, items, i, acc) ==
    A_batch_outcome(items, i, acc, [j \in i..Len(items) |-> A_analyze(loaded, items[j])])

A_valid_analyze(r) ==
    /\ r.type \in CONTENT_TYPES
    /\ Len(r.items[1].text) >= TEXT_MIN_LENGTH
    /\ Len(r.items[1].text) <= TEXT_MAX_LENGTH

\* the bug of an off-by-one upper limit
A_valid_batch_strict(r) ==
    /\ r.type \in CONTENT_TYPES
    /\ Len(r.items) >= TEXTS_MIN_ITEMS
    /\ Len(r.items) < TEXTS_MAX_ITEMS

A_valid_batch(r) ==
    /\ r.type \in CONTENT_TYPES
    /\ Len(r.items) >= TEXTS_MIN_ITEMS
    /\ Len(r.items) <= TEXTS_MAX_ITEMS

\* the bug of answering a failure the way the batch loop does
A_except_neutral(e, prefix) == Success(<<NeutralResult>>)

\* except Exception as e: raise HTTPException(status_code=500, detail=prefix + str(e))
A_except(e, prefix) ==
    HTTPError(500, prefix \o (IF "status" \in DOMAIN e THEN HTTPStr(e.status, e.err) ELSE e.err))

\* the try block of analyze_text
A_try_analyze(loaded, item) ==
    IF ~loaded THEN RaiseHTTP(503, NotReadyMsg) ELSE A_analyze(loaded, item)

\* the try block of analyze_batch
A_try_batch(loaded, items) ==
    IF ~loaded THEN RaiseHTTP(503, NotReadyMsg)
    ELSE A_analyze_batch(loaded, items, 1, <<>>).out

\* the bug of a handler that releases the models once it has answered
A_post_analyze_releasing ==
    /\ req.variant = "analyzers" /\ req.endpoint = "analyze"
    /\ ready_at' = models_loaded
    /\ IF ~A_valid_analyze(req)
       THEN resp' = ValidationError /\ analyzed' = <<>>
       ELSE LET r == A_try_analyze(models_loaded, req.items[1])
            IN  /\ resp' = IF r.ok THEN Success(<<r.val>>)
                           ELSE A_except(r, "Analysis failed: ")
                /\ analyzed' = IF models_loaded THEN Texts(req.items) ELSE <<>>
    /\ models_loaded' = FALSE
    /\ UNCHANGED <<tokenizer, model, nlp, loads, req, crypto_keywords, weights, call, ret>>

\* POST /analyze
A_post_analyze ==
    /\ req.variant = "analyzers" /\ req.endpoint = "analyze"
    /\ ready_at' = models_loaded
    /\ IF ~A_valid_analyze(req)
       THEN resp' = ValidationError /\ analyzed' = <<>>
       ELSE LET r == A_try_analyze(models_loaded, req.items[1])
            IN  /\ resp' = IF r.ok THEN Success(<<r.val>>)
                           ELSE A_except(r, "Analysis failed: ")
                /\ analyzed' = IF models_loaded THEN Texts(req.items) ELSE <<>>
    /\ UNCHANGED <<tokenizer, model, nlp, models_loaded, loads, req, crypto_keywords, weights, call, ret>>

\* POST /analyze/batch
A_post_analyze_batch ==
    /\ req.variant = "analyzers" /\ req.endpoint = "batch"
    /\ ready_at' = models_loaded
    /\ IF ~A_valid_batch(req)
       THEN resp' = ValidationError /\ analyzed' = <<>>
       ELSE LET r == A_try_batch(models_loaded, req.items)
            IN  /\ resp' = IF r.ok THEN Success(r.val)
                           ELSE A_except(r, "Batch analysis failed: ")
                /\ analyzed' =
                     IF models_loaded
                     THEN SubSeq(Texts(req.items), 1,
                                 A_analyze_batch(models_loaded, req.items, 1, <<>>).upto)
                     ELSE <<>>
    /\ UNCHANGED <<tokenizer, model, nlp, models_loaded, loads, req, crypto_keywords, weights, call, ret>>

--------------------------------------------------------------------------
(* services: the handlers of main.py *)

\* not request.text or not request.text.strip()
B_text_empty(text) == text = "" \/ IsBlank(text)

\* the except branch of the batch loop
B_on_item_error(e) == Return(NeutralResult)

\* one turn of the batch loop: try analyze, except append the neutral result
B_batch_item(kws, item) ==
    LET r == B_analyze(kws, item)
    IN  IF r.ok THEN r ELSE B_on_item_error(r)

\* the bug of a loop that skips the item that failed
B_batch_results_dropping(kws, items, i, results) ==
    LET rs == [j \in 1..(Len(items) - i + 1) |-> B_analyze(kws, items[i + j - 1])]
        Ok(r) == r.ok
        kept == SelectSeq(rs, Ok)
    IN  results \o [j \in 1..Len(kept) |-> kept[j].val]

\* for req in requests: ... results.append(...)
B_batch_results(kws, items, i, results) ==
    results \o [j \in 1..(Len(items) - i + 1) |-> B_batch_item(kws, items[i + j - 1]).val]

\* POST /analyze
B_post_analyze ==
    /\ req.variant = "services" /\ req.endpoint = "analyze"
    /\ ready_at' = TRUE
    /\ IF B_text_empty(req.items[1].text)
       THEN resp' = HTTPError(400, "Text cannot be empty") /\ analyzed' = <<>>
       ELSE LET r == B_analyze(crypto_keywords, req.items[1])
            IN  /\ resp' = IF r.ok THEN Success(<<r.val>>)
                           ELSE HTTPError(500, "Analysis failed: " \o r.err)
                /\ analyzed' = Texts(req.items)
    /\ UNCHANGED <<tokenizer, model, nlp, models_loaded, loads, req, crypto_keywords, weights, call, ret>>

\* POST /batch
B_post_batch ==
    /\ req.variant = "services" /\ req.endpoint = "batch"
    /\ ready_at' = TRUE
    /\ IF Len(req.items) = 0
       THEN resp' = HTTPError(400, "Request list cannot be empty") /\ analyzed' = <<>>
       ELSE IF Len(req.items) > B_MAX_TEXTS
       THEN resp' = HTTPError(400, "Maximum 100 texts per batch") /\ analyzed' = <<>>
       ELSE /\ resp' = Success(B_batch_results(crypto_keywords, req.items, 1, <<>>))
            /\ analyzed' = Texts(req.items)
    /\ UNCHANGED <<tokenizer, model, nlp, models_loaded, loads, req, crypto_keywords, weights, call, ret>>

--------------------------------------------------------------------------
(* The health endpoints of main.py *)

NoCall == [fn |-> "none"]
NoRet == [done |-> FALSE]
\* the client's request has been answered
Handled == resp # NoResp

API_VERSION == "1.0.0"
B_model_name == "ProsusAI/finbert"
B_spacy_model == "en_core_web_sm"

HealthResponse(status, loaded) ==
    [status |-> status, models_loaded |-> loaded, version |-> API_VERSION]

\* a GET is answered with body; the analyzer is only read
Answer(body, ready) ==
    /\ resp' = [status |-> 200, results |-> <<>>, detail |-> "", body |-> body]
    /\ ready_at' = ready
    /\ analyzed' = <<>>
    /\ UNCHANGED <<tokenizer, model, nlp, models_loaded, loads, req, crypto_keywords,
                   weights, call, ret>>

\* analyzers GET /
A_root ==
    /\ req.variant = "analyzers" /\ req.endpoint = "root"
    /\ Answer(HealthResponse("running", models_loaded), models_loaded)

\* analyzers GET /health
A_health ==
    /\ req.variant = "analyzers" /\ req.endpoint = "health"
    /\ Answer(HealthResponse(IF models_loaded THEN "healthy" ELSE "initializing",
                             models_loaded), models_loaded)

\* services GET /
B_root ==
    /\ req.variant = "services" /\ req.endpoint = "root"
    /\ Answer([service |-> "Sentiment Analysis API", version |-> API_VERSION,
               status |-> "running"], TRUE)

\* services GET /health
B_health_check ==
    /\ req.variant = "services" /\ req.endpoint = "health"
    /\ Answer([status |-> "healthy", model |-> B_model_name,
               spacy_model |-> B_spacy_model], TRUE)

--------------------------------------------------------------------------
(* The services: a client's requests, each handled before or after the     *)
(* models are loaded and sent again at will, one after the other in any    *)
(* order                                                                   *)

\* the GETs of the health endpoints
HealthRequests ==
    {Request(v, e, "news", <<>>) : v \in {"analyzers", "services"}, e \in {"root", "health"}}

\* the requests a client goes on with: a single text, alone or as a batch,
\* or a look at the service's health
FollowUps ==
    {r \in Requests : Len(r.items) = 1 /\ r.items[1] \in BatchItems} \cup HealthRequests

\* the client sends another request to the same service
NewRequest ==
    /\ Handled
    /\ \E r \in FollowUps :
         /\ r.variant = req.variant
         /\ r # req
         /\ req' = r
    /\ resp' = NoResp
    /\ analyzed' = <<>>
    /\ ready_at' = FALSE
    /\ UNCHANGED <<tokenizer, model, nlp, models_loaded, loads, crypto_keywords,
                   weights, call, ret>>

Init ==
    /\ tokenizer = "none" /\ model = "none" /\ nlp = "none"
    /\ models_loaded = FALSE
    /\ loads = 0
    /\ req \in Requests \cup HealthRequests
    /\ resp = NoResp
    /\ analyzed = <<>>
    /\ ready_at = FALSE
    /\ crypto_keywords \in CryptoKeywordOrders
    /\ weights = DefaultWeights
    /\ call = NoCall
    /\ ret = NoRet

Next ==
    \/ LoadModels
    \/ A_post_analyze
    \/ A_post_analyze_batch
    \/ B_post_analyze
    \/ B_post_batch
    \/ A_root
    \/ A_health
    \/ B_root
    \/ B_health_check
    \/ NewRequest

Spec == Init /\ [][Next]_vars

--------------------------------------------------------------------------
(* Properties of the handlers, under Spec *)

IsClientError(r) == r.status >= 400 /\ r.status <= 499
OnA(endpoint) == req.variant = "analyzers" /\ req.endpoint = endpoint
OnB(endpoint) == req.variant = "services" /\ req.endpoint = endpoint
\* the classifier fails on item i of the request
FailsAt(i) == req.items[i].sent.raises

\* C1: analyzers POST /analyze/batch, models loaded, 1..100 texts: when an item
\* raises the batch is not aborted; the response is a success with one result
\* per text in input order, the neutral placeholder in the failed item's slot
\* and the normal analysis result in every other slot.
C1_BatchIsolatesFailures ==
    (/\ Handled /\ OnA("batch") /\ ready_at
     /\ req.type \in CONTENT_TYPES
     /\ Len(req.items) >= 1 /\ Len(req.items) <= 100)
    => /\ resp.status = 200
       /\ Len(resp.results) = Len(req.items)
       /\ \A i \in 1..Len(req.items) :
            resp.results[i] = IF FailsAt(i) THEN NeutralResult
                              ELSE A_analyze(TRUE, req.items[i]).val

\* C2: services POST /batch, 1..100 items: the response is a success with
\* exactly one result per item in input order; result i is the neutral
\* placeholder when analysing item i raised and analyze's result otherwise.
C2_BatchOneResultPerItem ==
    (Handled /\ OnB("batch") /\ Len(req.items) >= 1 /\ Len(req.items) <= 100)
    => /\ resp.status = 200
       /\ Len(resp.results) = Len(req.items)
       /\ \A i \in 1..Len(req.items) :
            resp.results[i] = IF FailsAt(i) THEN NeutralResult
                              ELSE B_analyze(crypto_keywords, req.items[i]).val

\* a services batch handled with a failing item between two that succeed
C2_Witness ==
    /\ Handled /\ OnB("batch") /\ resp.status = 200
    /\ Len(req.items) = 100
    /\ FailsAt(7) /\ ~FailsAt(6) /\ ~FailsAt(8)
    /\ resp.results[7] = NeutralResult
    /\ resp.results[6] # NeutralResult

\* C3: analyzers, a (valid) request handled while models_loaded() is false is
\* answered with status 503, not with the generic 500.
C3_NotReadyIs503 ==
    (/\ Handled /\ (OnA("analyze") \/ OnA("batch")) /\ ~ready_at
     /\ (OnA("analyze") => A_valid_analyze(req))
     /\ (OnA("batch") => A_valid_batch(req)))
    => resp.status = 503

\* C4: POST /analyze of each variant: an empty or whitespace-only text is
\* rejected with a client error and analyzer.analyze is not called.
C4_EmptyTextRejected ==
    (/\ Handled /\ req.endpoint = "analyze" /\ ready_at
     /\ req.type \in CONTENT_TYPES
     /\ IsBlank(req.items[1].text))
    => IsClientError(resp) /\ analyzed = <<>>

\* C5: the batch endpoint of each variant: a batch of 0 or of more than 100
\* texts is rejected with a client error before analyze is invoked on any
\* item; a batch of 1..100 texts is never rejected because of its size.
C5_BatchSizeLimits ==
    (Handled /\ req.endpoint = "batch" /\ req.type \in CONTENT_TYPES)
    => /\ (Len(req.items) = 0 \/ Len(req.items) > 100)
            => (IsClientError(resp) /\ analyzed = <<>>)
       /\ (Len(req.items) >= 1 /\ Len(req.items) <= 100)
            => ~IsClientError(resp)

\* a batch of 101 texts sent to the analyzers with the models loaded: rejected
\* with a client error, no text analysed
C5_Witness ==
    /\ Handled /\ OnA("batch") /\ req.type \in CONTENT_TYPES
    /\ models_loaded /\ ready_at
    /\ Len(req.items) = 101
    /\ IsClientError(resp) /\ analyzed = <<>>

\* C6: POST /analyze of each variant: when the analysis of a validated text
\* raises, the response is the 500 error carrying the failure description,
\* never a success carrying the placeholder or another made-up score.
C6_SingleFailureIs500 ==
    (/\ Handled /\ req.endpoint = "analyze" /\ ready_at
     /\ (OnA("analyze") => A_valid_analyze(req))
     /\ (OnB("analyze") => ~B_text_empty(req.items[1].text))
     /\ FailsAt(1))
    => /\ resp.status = 500
       /\ resp.results = <<>>
       /\ resp.detail = "Analysis failed: " \o ModelErrorMsg

\* the analyzers' POST /analyze answered 500 after the classifier failed
C6_Witness ==
    /\ Handled /\ OnA("analyze") /\ ready_at /\ A_valid_analyze(req)
    /\ FailsAt(1)
    /\ analyzed = <<req.items[1].text>>
    /\ resp.status = 500

\* C8: every result analyze produces in either variant, and every neutral
\* placeholder of a batch, has sentiment in [-1, 1], confidence in [0, 1] and
\* a label among positive, negative, neutral.
InRange(r) ==
    /\ r.sentiment >= -Unit /\ r.sentiment <= Unit
    /\ r.confidence >= 0 /\ r.confidence <= Unit
    /\ r.label \in {"positive", "negative", "neutral"}
C8_ResultsInRange ==
    \A i \in 1..Len(resp.results) : InRange(resp.results[i])

\* a batch answered with a placeholder and with a negative result
C8_Witness ==
    /\ Handled /\ OnB("batch") /\ resp.status = 200
    /\ \E i, j \in 1..Len(resp.results) :
         /\ FailsAt(i) /\ resp.results[i] = NeutralResult
         /\ resp.results[j].sentiment = -Unit /\ resp.results[j].label = "negative"

--------------------------------------------------------------------------
(* The analyzers' functions, called one at a time on enumerated arguments  *)

NerLabels == {"ORG", "PERSON", "PRODUCT", "DATE"}
\* 0-based offsets where a word of the text starts, and where one ends
WordStarts(text) ==
    {i - 1 : i \in {k \in 1..Len(text) :
        ~IsSpace(Char(text, k)) /\ (k = 1 \/ IsSpace(Char(text, k - 1)))}}
WordEnds(text) ==
    {k \in 1..Len(text) :
        ~IsSpace(Char(text, k)) /\ (k = Len(text) \/ IsSpace(Char(text, k + 1)))}
Spans(text) ==
    {Span(l, se[1], se[2]) :
        l \in NerLabels,
        se \in {x \in WordStarts(text) \X WordEnds(text) : x[1] < x[2]}}
\* doc.ents: up to MaxSpans spans, in text order, none overlapping another
NerOutputs(text) ==
    {q \in SeqsUpTo(Spans(text), MaxSpans) :
        \A i \in 1..(Len(q) - 1) : q[i].end <= q[i + 1].start}

EntityTexts ==
    {"btc BTC hack", "Bitcoin ETF approved", "Eth eth ETH", "Kraken btc", "Binance US"}
Vocabulary == {"the", "not", "up", "btc", "surges", "10%"}
Variants == {"analyzers", "services"}

ClassifyCalls ==
    {[fn |-> "classify_sentiment", variant |-> v, text |-> SampleShort.text, sent |-> o] :
        v \in Variants, o \in SentOutcomes}
EntityCalls ==
    UNION {{[fn |-> "extract_entities", variant |-> v, text |-> t, ents |-> e] :
                v \in Variants, e \in NerOutputs(t)} : t \in EntityTexts}
KeywordCalls ==
    {[fn |-> "extract_keywords", variant |-> "analyzers", tokens |-> w, top_n |-> n] :
        w \in SeqsUpTo(Vocabulary, MaxTokens), n \in 0..MaxTopN}
AnalyzeCalls ==
    {[fn |-> "analyze", variant |-> v, item |-> it] : v \in Variants, it \in Items}
\* calculate_impact: texts with 0, 1, 2, 3 and 4 of the analyzers' high-impact
\* keywords, every sentiment of the grid with either sign, 0..MaxEntities entities
ImpactTexts ==
    {"price steady", "exchange hack", "etf approved", "hack crash ban",
     "pump dump fork attack"}
SentimentGrid == Grid \cup {-g : g \in Grid}
EntityNames ==
    <<"Bitcoin", "ETH", "SEC", "Binance", "Coinbase", "Solana", "Kraken", "Tether">>
EntityTypes ==
    <<"cryptocurrency", "cryptocurrency", "organization", "exchange", "exchange",
      "cryptocurrency", "exchange", "cryptocurrency">>
ImpactEntities(variant, n) ==
    IF variant = "analyzers" THEN SubSeq(EntityNames, 1, n)
    ELSE [i \in 1..n |-> [text |-> EntityNames[i], type |-> EntityTypes[i],
                          start |-> 10 * i, end |-> 10 * i + Len(EntityNames[i])]]
\* calculate_impact(text, sentiment_score, entities, keywords) of the analyzers,
\* calculate_impact(text, sentiment, entities) of the services
ImpactCalls ==
    {[fn |-> "calculate_impact", variant |-> "analyzers", text |-> t, sentiment |-> x,
      entities |-> ImpactEntities("analyzers", n), keywords |-> <<>>] :
        t \in ImpactTexts, x \in SentimentGrid, n \in 0..MaxEntities}
    \cup
    {[fn |-> "calculate_impact", variant |-> "services", text |-> t, sentiment |-> x,
      entities |-> ImpactEntities("services", n)] :
        t \in ImpactTexts, x \in SentimentGrid, n \in 0..MaxEntities}
\* the normalizers: texts put together from words, whitespace, URLs of the
\* three kinds, a tag and an email
TextParts == {"Buy", "btc", " ", "\n", "https://X.co/a", "www.x.co", "<b>", "me@x.co"}
RECURSIVE Concat(_)
Concat(q) == IF q = <<>> THEN "" ELSE Head(q) \o Concat(Tail(q))
NormalizerTexts == {Concat(q) : q \in SeqsUpTo(TextParts, MaxParts)}
NormalizerCalls ==
    {[fn |-> "clean_text", variant |-> "analyzers", text |-> t] : t \in NormalizerTexts}
    \cup {[fn |-> "preprocess_text", variant |-> "services", text |-> t] :
             t \in NormalizerTexts}
Calls == ClassifyCalls \cup EntityCalls \cup KeywordCalls \cup AnalyzeCalls
         \cup ImpactCalls \cup NormalizerCalls

Done(r) == [done |-> TRUE, ok |-> r.ok, val |-> r.val, err |-> r.err]
Calling(fn, variant) == call.fn = fn /\ call.variant = variant /\ ~ret.done
Returned(fn, variant) == call.fn = fn /\ call.variant = variant /\ ret.done /\ ret.ok
CallFrame == <<tokenizer, model, nlp, models_loaded, loads, req, resp, analyzed, ready_at,
               crypto_keywords, weights, call>>

CallClassifyA ==
    /\ Calling("classify_sentiment", "analyzers")
    /\ ret' = Done(A_classify_sentiment(models_loaded, call.text, call.sent))
    /\ UNCHANGED CallFrame
CallClassifyB ==
    /\ Calling("classify_sentiment", "services")
    /\ ret' = Done(B_classify_sentiment(call.text, call.sent))
    /\ UNCHANGED CallFrame
CallEntitiesA ==
    /\ Calling("extract_entities", "analyzers")
    /\ ret' = Done(A_extract_entities(models_loaded, call.text, call.ents))
    /\ UNCHANGED CallFrame
CallEntitiesB ==
    /\ Calling("extract_entities", "services")
    /\ ret' = Done(Return(B_extract_entities(crypto_keywords, call.text, call.ents)))
    /\ UNCHANGED CallFrame
CallKeywordsA ==
    /\ Calling("extract_keywords", "analyzers")
    /\ ret' = Done(Return(A_extract_keywords(call.tokens, call.top_n)))
    /\ UNCHANGED CallFrame
CallAnalyzeA ==
    /\ Calling("analyze", "analyzers")
    /\ ret' = Done(A_analyze(models_loaded, call.item))
    /\ UNCHANGED CallFrame
CallAnalyzeB ==
    /\ Calling("analyze", "services")
    /\ ret' = Done(B_analyze(crypto_keywords, call.item))
    /\ UNCHANGED CallFrame

CallImpactA ==
    /\ Calling("calculate_impact", "analyzers")
    /\ ret' = Done(Return(A_calculate_impact(call.text, call.sentiment,
                                             call.entities, call.keywords)))
    /\ UNCHANGED CallFrame
CallImpactB ==
    /\ Calling("calculate_impact", "services")
    /\ ret' = Done(Return(B_calculate_impact(call.text, call.sentiment, call.entities)))
    /\ UNCHANGED CallFrame

CallCleanText ==
    /\ Calling("clean_text", "analyzers")
    /\ ret' = Done(Return(clean_text(call.text)))
    /\ UNCHANGED CallFrame
CallPreprocessText ==
    /\ Calling("preprocess_text", "services")
    /\ ret' = Done(Return(preprocess_text(call.text)))
    /\ UNCHANGED CallFrame

\* the analyzers' models are loaded, or nothing of them is
InitCalls ==
    /\ models_loaded \in BOOLEAN
    /\ tokenizer = (IF models_loaded THEN "loaded" ELSE "none")
    /\ model = tokenizer /\ nlp = tokenizer
    /\ loads = (IF models_loaded THEN 1 ELSE 0)
    /\ req = Request("none", "none", "news", <<>>)
    /\ resp = NoResp
    /\ analyzed = <<>>
    /\ ready_at = FALSE
    /\ crypto_keywords \in CryptoKeywordOrders
    /\ weights \in WeightConfigs
    /\ call \in Calls
    /\ ret = NoRet

NextCalls ==
    \/ CallClassifyA
    \/ CallClassifyB
    \/ CallEntitiesA
    \/ CallEntitiesB
    \/ CallKeywordsA
    \/ CallAnalyzeA
    \/ CallAnalyzeB
    \/ CallImpactA
    \/ CallImpactB
    \/ CallCleanText
    \/ CallPreprocessText

SpecCalls == InitCalls /\ [][NextCalls]_vars

--------------------------------------------------------------------------
(* Properties of the functions, under SpecCalls *)

Clamp(x) == Max(-Unit, Min(Unit, x))
\* class i has the highest probability
IsHighest(p, i) == \A j \in 1..Len(p) : p[j] <= p[i]

\* C7: in both variants classify_sentiment returns the class with the highest
\* probability as label, that probability as confidence, and the margin
\* P(positive) - P(negative) clamped to [-1, 1] as sentiment, whichever label
\* won.
C7_SentimentIsMargin ==
    (call.fn = "classify_sentiment" /\ ret.done /\ ret.ok)
    => LET p == call.sent.probs
       IN  /\ \E i \in 1..3 : /\ IsHighest(p, i)
                              /\ ret.val.label = PipelineLabels[i]
                              /\ ret.val.confidence = p[i]
           /\ ret.val.sentiment = Clamp(p[1] - p[2])

\* C9: extract_entities returns no two entities with the same case-insensitive
\* surface form (analyzers) and no two with the same start offset (services);
\* in the analyzers the entity kept is the first seen and the first-seen order
\* is preserved.
FirstForms(all) ==
    {i \in 1..Len(all) : \A j \in 1..(i - 1) : Lower(all[j]) # Lower(all[i])}
C9_EntitiesDeduplicated ==
    /\ Returned("extract_entities", "analyzers") =>
         LET all == A_all_entities(call.text, call.ents)
             first == FirstForms(all)
         IN  /\ \A i, j \in 1..Len(ret.val) :
                    i # j => Lower(ret.val[i]) # Lower(ret.val[j])
             /\ Len(ret.val) = Cardinality(first)
             /\ \A i \in first :
                    ret.val[Cardinality({j \in first : j <= i})] = all[i]
    /\ Returned("extract_entities", "services") =>
         \A i, j \in 1..Len(ret.val) :
             i # j => ret.val[i].start # ret.val[j].start

\* the analyzers met two spellings of one name and kept the first
C9_Witness ==
    /\ Returned("extract_entities", "analyzers")
    /\ call.text = "btc BTC hack"
    /\ Len(call.ents) = 2
    /\ A_all_entities(call.text, call.ents) = <<"btc", "BTC">>
    /\ ret.val = <<"btc">>

\* C10: extract_keywords(text, top_n) returns at most top_n keywords, each
\* alphanumeric, at least 3 characters long and no stopword (the override
\* words are no stopwords); analyze returns at most 5 keywords.
C10_KeywordsBounded ==
    /\ Returned("extract_keywords", "analyzers") =>
         /\ Len(ret.val) <= call.top_n
         /\ \A i \in 1..Len(ret.val) :
              /\ IsAlnum(ret.val[i])
              /\ Len(ret.val[i]) >= 3
              /\ ret.val[i] \notin (ENGLISH_STOPWORDS \ keep_words)
    /\ Returned("analyze", "analyzers") => Len(ret.val.keywords) <= 5

\* more keywords survive the filter than top_n asks for, among tokens the
\* filter drops
C10_Witness ==
    /\ Returned("extract_keywords", "analyzers")
    /\ call.tokens = <<"the", "up", "btc", "surges">>
    /\ call.top_n = 1
    /\ ret.val = <<"btc">>


\* the tokens of the call that pass the filter, in text order
Survivors == A_filter_tokens(call.tokens, 1)
\* where a word first occurs among them
FirstAt(w, q) == CHOOSE i \in 1..Len(q) : q[i] = w /\ \A j \in 1..(i - 1) : q[j] # w
\* word v ranks before word w: more frequent, or as frequent and met earlier
RanksBefore(v, w, q) ==
    \/ CountOf(v, q) > CountOf(w, q)
    \/ CountOf(v, q) = CountOf(w, q) /\ FirstAt(v, q) < FirstAt(w, q)

\* C11: extract_keywords returns the surviving tokens by descending frequency,
\* equally frequent ones in order of first occurrence, each once, cut to the
\* first top_n of that ranking.
C11_KeywordsRanked ==
    Returned("extract_keywords", "analyzers") =>
        LET q == Survivors
            out == ret.val
        IN  /\ Range(out) \subseteq Range(q)
            /\ \A i, j \in 1..Len(out) : i # j => out[i] # out[j]
            /\ Len(out) = Min(call.top_n, Cardinality(Range(q)))
            /\ \A i, j \in 1..Len(out) : i < j => RanksBefore(out[i], out[j], q)
            /\ \A w \in Range(q) \ Range(out) :
                   \A i \in 1..Len(out) : RanksBefore(out[i], w, q)

\* the most frequent word comes first though it was met second, a tie is
\* settled by first occurrence and the third word is cut
C11_Witness ==
    /\ Returned("extract_keywords", "analyzers")
    /\ call.tokens = <<"btc", "surges", "not", "surges">>
    /\ call.top_n = 2
    /\ ret.val = <<"surges", "btc">>


\* low < medium < high
ImpactRank(level) ==
    CASE level = "low" -> 0
      [] level = "medium" -> 1
      [] level = "high" -> 2
\* the analyzers' score at sentiment x, the rest as in the call
A_ScoreAt(x) == A_impact_score(call.text, x, call.entities, call.keywords)
\* the services' points at sentiment x, the rest as in the call
B_PointsAt(x) == B_impact_points(call.text, x, call.entities)
\* the sentiments of the grid at least as strong as x
Stronger(x) == {y \in SentimentGrid : Abs(y) >= Abs(x)}
\* from the call's sentiment to every stronger one the analyzers' score does
\* not go down, nor the level below the one returned
A_Monotone ==
    LET here == A_ScoreAt(call.sentiment)
    IN  \A y \in Stronger(call.sentiment) :
            LET there == A_ScoreAt(y)
            IN  /\ FCmp(there, here) >= 0
                /\ ImpactRank(A_impact_level(there)) >= ImpactRank(ret.val)
\* the same of the services' points and level
B_Monotone ==
    \A y \in Stronger(call.sentiment) :
        /\ B_PointsAt(y) >= B_PointsAt(call.sentiment)
        /\ ImpactRank(B_calculate_impact(call.text, y, call.entities))
             >= ImpactRank(ret.val)

\* C12 as stated: in each variant, text, entities and keywords fixed, a larger
\* abs(sentiment) never gives a lower impact score, nor a lower impact level.
C12_ImpactMonotone ==
    /\ Returned("calculate_impact", "analyzers") => A_Monotone
    /\ Returned("calculate_impact", "services") => B_Monotone

\* C12, amended: the same, in the analyzers when the configured
\* WEIGHT_SENTIMENT is not negative (the default 0.4 is not); in the services
\* always.
C12_ImpactMonotoneWeighted ==
    /\ (Returned("calculate_impact", "analyzers") /\ weights.sentiment >= 0) => A_Monotone
    /\ Returned("calculate_impact", "services") => B_Monotone

\* default weights: a text that is low at sentiment 0 and high at sentiment -1
C12_Witness ==
    /\ Returned("calculate_impact", "analyzers")
    /\ weights = DefaultWeights
    /\ call.sentiment = 0
    /\ ret.val = "low"
    /\ A_calculate_impact(call.text, -Unit, call.entities, call.keywords) = "high"


\* the score of the claim as an exact number, in units of 1 / (150 * Unit):
\* abs(sentiment) * 0.4 + min(entity_count / 5, 1) * 0.3 + min(matches / 3, 1) * 0.3
ExactScore(sentiment, entity_count, matches) ==
      Abs(sentiment) * 4 * 15
    + Min(entity_count, 5) * 3 * 3 * Unit
    + Min(matches, 3) * 5 * 3 * Unit
\* high from 0.7, medium from 0.4, low below
ExactLevel(score) ==
    IF score >= 7 * 15 * Unit THEN "high"
    ELSE IF score >= 4 * 15 * Unit THEN "medium"
    ELSE "low"

\* C13: analyzers, default weights: calculate_impact returns the level of
\* abs(sentiment) * 0.4 + min(entity_count / 5, 1) * 0.3 + min(matches / 3, 1) * 0.3,
\* matches counting the high-impact keywords that occur in the lowercased text:
\* high from 0.7, medium from 0.4 up to 0.7, low below 0.4.
C13_ImpactFormula ==
    (Returned("calculate_impact", "analyzers") /\ weights = DefaultWeights) =>
        ret.val = ExactLevel(ExactScore(call.sentiment, Len(call.entities),
                                        A_keyword_matches(Lower(call.text))))


\* a URL (http://..., https://... or www...), an HTML tag, an email in s
HasUrl(s) ==
    \E i \in 1..Len(s) :
        \/ StartsAt("http://", s, i) /\ i + 7 <= Len(s) /\ ~IsSpace(Char(s, i + 7))
        \/ StartsAt("https://", s, i) /\ i + 8 <= Len(s) /\ ~IsSpace(Char(s, i + 8))
        \/ StartsAt("www.", s, i) /\ i + 4 <= Len(s) /\ ~IsSpace(Char(s, i + 4))
HasTag(s) == \E i \in 1..Len(s) : TagPattern(s)[i] > 0
HasEmail(s) == \E i \in 1..Len(s) : EmailPattern(s)[i] > 0
\* two whitespace characters in a row; whitespace at either end
HasSpaceRun(s) == \E i \in 1..(Len(s) - 1) : IsSpace(Char(s, i)) /\ IsSpace(Char(s, i + 1))
Untrimmed(s) == s # "" /\ (IsSpace(Char(s, 1)) \/ IsSpace(Char(s, Len(s))))
Normalized(s) ==
    ~HasUrl(s) /\ ~HasTag(s) /\ ~HasEmail(s) /\ ~HasSpaceRun(s) /\ ~Untrimmed(s)

\* C14: for every input with an embedded URL, HTML tag or email, the output of
\* each variant's normalizer (clean_text, preprocess_text) has no URL, no tag,
\* no email, no run of two or more whitespace characters and no whitespace at
\* either end.
C14_NormalizerCleans ==
    (/\ ret.done
     /\ call.fn \in {"clean_text", "preprocess_text"}
     /\ (HasUrl(call.text) \/ HasTag(call.text) \/ HasEmail(call.text)))
    => Normalized(ret.val)


--------------------------------------------------------------------------
(* Properties of the analyzer's state, under Spec *)

\* C15: analyzers, over any sequence of load_models calls and requests: the
\* models are loaded at most once (a load_models call made when
\* models_loaded() is true loads nothing and changes nothing), models_loaded()
\* is true only when the tokenizer, the sentiment model and the NER model are
\* all set, and once true it never becomes false again.
C15_LoadedOnce ==
    /\ [](models_loaded => (tokenizer = "loaded" /\ model = "loaded" /\ nlp = "loaded"))
    /\ [](loads <= 1)
    /\ [][models_loaded =>
            (models_loaded' /\ UNCHANGED <<tokenizer, model, nlp, loads>>)]_vars

\* the models were loaded and a request was then served from them
C15_Witness ==
    /\ models_loaded /\ loads = 1
    /\ tokenizer = "loaded" /\ model = "loaded" /\ nlp = "loaded"
    /\ Handled /\ ready_at /\ resp.status = 200


--------------------------------------------------------------------------
(* Shared analyzer state *)

\* every field of the analyzer that outlives a request
Analyzer == <<tokenizer, model, nlp, models_loaded, loads, crypto_keywords, weights>>

OverrideWords == {"up", "down", "not", "no"}

\* C17: extract_keywords never filters the override words "up", "down", "not"
\* and "no": one that occurs as a token survives the token filter, and is
\* returned whenever top_n does not cut the ranking.
C17_OverridesKept ==
    Returned("extract_keywords", "analyzers") =>
        \A w \in OverrideWords \cap Range(call.tokens) :
            /\ w \in Range(Survivors)
            /\ call.top_n >= Cardinality(Range(Survivors)) => w \in Range(ret.val)


--------------------------------------------------------------------------
(* Entity types of the services *)

\* the lowercased text of NER span i of the call
SpanText(i) == Lower(EntText(call.text, call.ents[i]))
IsCryptoTerm(t) == t \in Range(CRYPTO_KEYWORDS_WRITTEN)
\* the text matches the exchange list: it holds one of its names
IsExchange(t) == \E x \in EXCHANGES : Contains(x, t)
\* the type the rules give by the NER label
LabelType(label, t) ==
    CASE label = "PERSON" -> "person"
      [] label = "ORG" -> (IF IsExchange(t) THEN "exchange" ELSE "company")
      [] label = "PRODUCT" -> "cryptocurrency"
      [] OTHER -> "organization"

\* C18 as stated: every NER span is typed by its label: person to person,
\* organization to company, or to exchange when its lowercased text matches
\* the exchange list, product to cryptocurrency, every other to organization.
C18_MapByLabel ==
    Returned("extract_entities", "services") =>
        \A i \in 1..Len(call.ents) :
            ret.val[i].type = LabelType(call.ents[i].label, SpanText(i))

\* C18: a span whose lowercased text is a term of the crypto vocabulary is
\* typed cryptocurrency whatever its label; every other span is typed by its
\* label as above.
C18_MapByLabelUnlessCrypto ==
    Returned("extract_entities", "services") =>
        \A i \in 1..Len(call.ents) :
            ret.val[i].type = IF IsCryptoTerm(SpanText(i)) THEN "cryptocurrency"
                              ELSE LabelType(call.ents[i].label, SpanText(i))

\* an organization typed exchange next to a person typed cryptocurrency
\* because its text is a crypto term
C18_Witness ==
    /\ Returned("extract_entities", "services")
    /\ call.text = "Kraken btc"
    /\ call.ents = <<Span("ORG", 0, 6), Span("PERSON", 7, 10)>>
    /\ ret.val[1].type = "exchange"
    /\ ret.val[2].type = "cryptocurrency"


\* the 0-based starts of the whole-word occurrences of crypto terms in the
\* text of the call
CryptoStarts ==
    UNION {{m - 1 : m \in WordMatches(k, Lower(call.text))} :
               k \in Range(CRYPTO_KEYWORDS_WRITTEN)}
\* the entities returned at an offset, and the NER spans that start there
EntitiesAt(start) == {i \in 1..Len(ret.val) : ret.val[i].start = start}
SpansAt(start) == {j \in 1..Len(call.ents) : call.ents[j].start = start}

\* C19 as stated: at the start of every whole-word occurrence of a crypto term
\* extract_entities reports an entity of type cryptocurrency, whatever the NER
\* model made of a span that starts there.
C19_LexicalTypeAlways ==
    Returned("extract_entities", "services") =>
        \A start \in CryptoStarts :
            /\ EntitiesAt(start) # {}
            /\ \A i \in EntitiesAt(start) : ret.val[i].type = "cryptocurrency"

\* C19: at the start of every whole-word occurrence of a crypto term
\* extract_entities reports exactly one entity; its type is cryptocurrency
\* when no NER span starts there or the span's lowercased text is itself a
\* crypto term, and the type the span's label gives otherwise.
C19_LexicalTypeUnlessLongerSpan ==
    Returned("extract_entities", "services") =>
        \A start \in CryptoStarts :
            /\ Cardinality(EntitiesAt(start)) = 1
            /\ \A i \in EntitiesAt(start) :
                 /\ SpansAt(start) = {} => ret.val[i].type = "cryptocurrency"
                 /\ \A j \in SpansAt(start) :
                      ret.val[i].type =
                          IF IsCryptoTerm(SpanText(j)) THEN "cryptocurrency"
                          ELSE LabelType(call.ents[j].label, SpanText(j))

\* the NER model took the first btc for a person: it is reported as a
\* cryptocurrency, and so is the second one, which the NER model missed
C19_Witness ==
    /\ Returned("extract_entities", "services")
    /\ call.text = "btc BTC hack"
    /\ call.ents = <<Span("PERSON", 0, 3)>>
    /\ Len(ret.val) = 2
    /\ ret.val[1].start = 0 /\ ret.val[1].type = "cryptocurrency"
    /\ ret.val[2].start = 4 /\ ret.val[2].type = "cryptocurrency"


--------------------------------------------------------------------------
(* The gate on the analyzers' models *)

\* the items of the client's request, each with the outcomes the models
\* would give were they asked
GateItems == {req.items[i] : i \in 1..Len(req.items)}

\* C20: analyzers, in every state in which models_loaded() is false, also
\* after a load_models that failed partway: analyze, classify_sentiment and
\* extract_entities raise the not-loaded error, whatever the models would
\* answer or raise; a request handled in such a state gets an error response
\* and no text of it reaches the analyzer; and a request whose texts reached
\* the analyzer found the tokenizer, the model and the NER pipeline loaded.
C20_NotLoadedGate ==
    /\ (req.variant = "analyzers" /\ ~models_loaded) =>
         \A it \in GateItems :
             /\ A_analyze(models_loaded, it) = Raise(NotLoadedMsg)
             /\ A_classify_sentiment(models_loaded, it.text, it.sent) = Raise(NotLoadedMsg)
             /\ A_extract_entities(models_loaded, it.text, it.ents) = Raise(NotLoadedMsg)
    /\ (Handled /\ (OnA("analyze") \/ OnA("batch")) /\ ~ready_at) =>
         /\ resp.status >= 400
         /\ resp.results = <<>>
         /\ analyzed = <<>>
    /\ (Handled /\ req.variant = "analyzers" /\ analyzed # <<>>) =>
         /\ ready_at
         /\ tokenizer = "loaded" /\ model = "loaded" /\ nlp = "loaded"

\* a valid request refused while only the tokenizer is loaded, load_models
\* having failed on the model
C20_Witness ==
    /\ Handled /\ OnA("analyze") /\ A_valid_analyze(req)
    /\ ~models_loaded /\ ~ready_at
    /\ tokenizer = "loaded" /\ model = "none" /\ nlp = "none"
    /\ ~FailsAt(1)
    /\ resp.status >= 400 /\ analyzed = <<>>


--------------------------------------------------------------------------
(* The classifier's sentiment against its confidence and label *)

\* what the analyzers' classifier returns for the distribution p
Classified(p) == A_classify_sentiment(TRUE, SampleShort.text, ModelGives(p)).val
\* a neutral label is returned with a positive sentiment for one distribution
\* and with a negative one for another
NeutralEitherSign ==
    /\ \E p \in Distributions :
           Classified(p).label = "neutral" /\ Classified(p).sentiment > 0
    /\ \E p \in Distributions :
           Classified(p).label = "neutral" /\ Classified(p).sentiment < 0

\* C21: analyzers, for every probability distribution over the three classes
\* classify_sentiment returns abs(sentiment) <= confidence and confidence >=
\* 1/3; a negative label comes with a sentiment below 0 and a positive label
\* with a sentiment of 0 or more, so that a sentiment whose sign disagrees
\* with the label is met under the neutral label only, where both signs occur.
C21_SentimentWithinConfidence ==
    /\ Returned("classify_sentiment", "analyzers") =>
         /\ Abs(ret.val.sentiment) <= ret.val.confidence
         /\ 3 * ret.val.confidence >= Unit
         /\ ret.val.label \in {"positive", "negative", "neutral"}
         /\ ret.val.label = "negative" => ret.val.sentiment < 0
         /\ ret.val.label = "positive" => ret.val.sentiment >= 0
    /\ NeutralEitherSign

\* positive and negative tie for the highest probability: the label is
\* positive, the sentiment 0 and the confidence one half
C21_Witness ==
    /\ Returned("classify_sentiment", "analyzers")
    /\ call.sent.probs[1] = call.sent.probs[2]
    /\ call.sent.probs[3] = 0
    /\ ret.val.label = "positive"
    /\ ret.val.sentiment = 0
    /\ 2 * ret.val.confidence = Unit

==========================================================================
